---- MODULE Spec2Model ----
(***************************************************************************)
(* State-machine model of the AWS stop/start scheduler                     *)
(* (src/scheduler/src): configuration loading, the orchestrator loop of    *)
(* main.rs, the paginated listings, and the nine per-family facades.       *)
(*                                                                         *)
(* Strings are sequences of one-character strings, so that split, trim,    *)
(* lower-casing and date formatting are computed, not assumed.  An ARN is  *)
(* a sequence of tokens in which the separators "/" and ":" are tokens of  *)
(* their own.  The cloud is the environment: every API call either fails   *)
(* or returns a response chosen nondeterministically.                      *)
(***************************************************************************)
EXTENDS Integers, Sequences, FiniteSets, TLC

VARIABLES
    env,        \* the process environment (variable name -> Unset or string)
    cloud,      \* the account: tagged resources per type, pages per listing
    today,      \* the UTC date read by is_date_excluded, NoDate before
    config,     \* the AppConfig built by from_env, NoConfig before
    pc,         \* position of main/execute
    ri,         \* index of the region being processed
    fi,         \* index (in FamilyOrder) of the family block being executed
    invoked,    \* sequence of <<region, family>> facade invocations so far
    nErr,       \* number of facade invocations that returned Err
    result,     \* result of the facade invocation in progress / last returned
    fpc,        \* position inside the facade
    ln,         \* which listing of the facade is running (1 or 2)
    lst,        \* the running listing: token, accumulator and its history
    arns,       \* first discovered list (ARNs, or group names)
    arns2,      \* second discovered list (RDS instances / ASG instance ids)
    phase,      \* which loop of the facade is running
    idx,        \* index of the next element of that loop
    calls,      \* state-changing calls issued by the facade, in order
    skipped,    \* EC2: instances process_instance left without a call
    started,    \* ASG start: instances whose start call succeeded
    attempt,    \* waiter: number of the next state query
    sleeps,     \* waiter: number of suspensions performed
    waitRes,    \* waiter: "none", "ok", "timeout" or "error"
    observed,   \* waiter: what its state queries have reported so far
    input,      \* the string handed to an ARN extractor
    extracted,  \* the extractor applied to it and what it returned
    acted       \* instances and DB clusters called in the current region

vars == <<env, cloud, today, config, pc, ri, fi, invoked, nErr, result, fpc, ln, lst,
          arns, arns2, phase, idx, calls, skipped, started, attempt, sleeps,
          waitRes, observed, input, extracted, acted>>

orchVars == <<input, extracted, env, cloud, today, config, pc, ri, fi, invoked, nErr>>
facadeVars == <<result, fpc, ln, lst, arns, arns2, phase, idx, calls, skipped,
                started, attempt, sleeps, waitRes, observed>>

(***************************************************************************)
(* Bounds of the model.                                                    *)
(***************************************************************************)
NumIds == 2          \* resources of one type in the account
MaxPages == 2        \* pages one listing is served in
MaxLen == 4          \* length of the arbitrary strings handed to the extractors

(***************************************************************************)
(* Strings.                                                                *)
(***************************************************************************)
Unset == <<"<unset>">>      \* env::var(name) is Err
NoDate == <<>>
NoConfig == [ok |-> FALSE]  \* no AppConfig: not loaded, or from_env returned Err

to_lowercase_char(c) ==
    CASE c = "S" -> "s" [] c = "T" -> "t" [] c = "O" -> "o" [] c = "P" -> "p"
      [] c = "A" -> "a" [] c = "R" -> "r" [] c = "U" -> "u" [] c = "E" -> "e"
      [] c = "K" -> "k" [] c = "V" -> "v"
      [] OTHER -> c

to_lowercase(s) == [i \in 1..Len(s) |-> to_lowercase_char(s[i])]

\* str::split(sep): the pieces between separators; never empty (the empty
\* string splits into one empty piece).
Seps(s, sep) == {i \in 1..Len(s) : s[i] = sep}

\* where the k-th separator is; 0 stands before the first piece and
\* Len(s) + 1 after the last
SepAt(s, sep, k) ==
    IF k = 0 THEN 0
    ELSE IF k > Cardinality(Seps(s, sep)) THEN Len(s) + 1
    ELSE CHOOSE i \in Seps(s, sep) :
             Cardinality({j \in Seps(s, sep) : j < i}) = k - 1

split(s, sep) ==
    [k \in 1..(Cardinality(Seps(s, sep)) + 1) |->
        SubSeq(s, SepAt(s, sep, k - 1) + 1, SepAt(s, sep, k) - 1)]

RECURSIVE trim(_)
trim(s) ==
    IF s = <<>> THEN s
    ELSE IF Head(s) = " " THEN trim(Tail(s))
    ELSE IF s[Len(s)] = " " THEN trim(SubSeq(s, 1, Len(s) - 1))
    ELSE s

last(parts) == parts[Len(parts)]

\* .split(',').map(trim).collect(), without the filter
split_list_keeps_empty(s) ==
    [i \in 1..Len(split(s, ",")) |-> trim(split(s, ",")[i])]

\* .split(',').map(trim).filter(!is_empty).collect()
RECURSIVE NonEmptyTrimmed(_)
NonEmptyTrimmed(parts) ==
    IF parts = <<>> THEN <<>>
    ELSE LET t == trim(Head(parts))
         IN (IF t = <<>> THEN <<>> ELSE <<t>>) \o NonEmptyTrimmed(Tail(parts))

split_list(s) == NonEmptyTrimmed(split(s, ","))

Range(s) == {s[i] : i \in 1..Len(s)}

(***************************************************************************)
(* Configuration (config.rs).                                              *)
(***************************************************************************)
\* execute with the Auto Scaling block placed before the EC2 block
FamilyOrderAsgFirst ==
    <<"autoscaling", "ec2", "apprunner", "cloudwatch", "documentdb", "ecs", "rds",
      "redshift", "transfer">>

\* the family blocks of execute, in the order they are written
FamilyOrder == <<"ec2", "autoscaling", "apprunner", "cloudwatch", "documentdb",
                 "ecs", "rds", "redshift", "transfer">>
Families == Range(FamilyOrder)

FlagVar(f) ==
    CASE f = "ec2" -> "EC2_SCHEDULE"
      [] f = "autoscaling" -> "AUTOSCALING_SCHEDULE"
      [] f = "apprunner" -> "APPRUNNER_SCHEDULE"
      [] f = "cloudwatch" -> "CLOUDWATCH_ALARM_SCHEDULE"
      [] f = "documentdb" -> "DOCUMENTDB_SCHEDULE"
      [] f = "ecs" -> "ECS_SCHEDULE"
      [] f = "rds" -> "RDS_SCHEDULE"
      [] f = "redshift" -> "REDSHIFT_SCHEDULE"
      [] f = "transfer" -> "TRANSFER_SCHEDULE"

FlagDefault(f) == f = "ec2"

env_bool(e, name, default) ==
    IF e[name] = Unset THEN default
    ELSE to_lowercase(e[name]) = <<"t", "r", "u", "e">>

\* from_env with TAG_VALUE read by unwrap_or_default() instead of context()?
from_env_tag_value_optional(e) ==
    LET act == to_lowercase(e["SCHEDULE_ACTION"])
        regions == split_list(e["AWS_REGIONS"])
    IN IF e["SCHEDULE_ACTION"] = Unset THEN NoConfig
       ELSE IF act # <<"s", "t", "o", "p">> /\ act # <<"s", "t", "a", "r", "t">>
       THEN NoConfig
       ELSE IF e["AWS_REGIONS"] = Unset THEN NoConfig
       ELSE IF regions = <<>> THEN NoConfig
       ELSE IF e["TAG_KEY"] = Unset THEN NoConfig
       ELSE [ok |-> TRUE,
             schedule_action |->
                 IF act = <<"s", "t", "o", "p">> THEN "Stop" ELSE "Start",
             aws_regions |-> regions,
             tag_key |-> e["TAG_KEY"],
             tag_value |-> IF e["TAG_VALUE"] = Unset THEN <<>> ELSE e["TAG_VALUE"],
             schedule |->
                 [f \in Families |-> env_bool(e, FlagVar(f), FlagDefault(f))],
             excluded_dates |->
                 IF e["EXCLUDED_DATES"] = Unset THEN <<>>
                 ELSE split_list(e["EXCLUDED_DATES"])]

from_env(e) ==
    LET act == to_lowercase(e["SCHEDULE_ACTION"])
        regions == split_list(e["AWS_REGIONS"])
    IN IF e["SCHEDULE_ACTION"] = Unset THEN NoConfig
       ELSE IF act # <<"s", "t", "o", "p">> /\ act # <<"s", "t", "a", "r", "t">>
       THEN NoConfig
       ELSE IF e["AWS_REGIONS"] = Unset THEN NoConfig
       ELSE IF regions = <<>> THEN NoConfig
       ELSE IF e["TAG_KEY"] = Unset THEN NoConfig
       ELSE IF e["TAG_VALUE"] = Unset THEN NoConfig
       ELSE [ok |-> TRUE,
             schedule_action |->
                 IF act = <<"s", "t", "o", "p">> THEN "Stop" ELSE "Start",
             aws_regions |-> regions,
             tag_key |-> e["TAG_KEY"],
             tag_value |-> e["TAG_VALUE"],
             schedule |->
                 [f \in Families |-> env_bool(e, FlagVar(f), FlagDefault(f))],
             excluded_dates |->
                 IF e["EXCLUDED_DATES"] = Unset THEN <<>>
                 ELSE split_list(e["EXCLUDED_DATES"])]

(***************************************************************************)
(* The exclusion gate (main.rs).                                           *)
(***************************************************************************)
Digit(n) == CASE n = 0 -> "0" [] n = 1 -> "1" [] n = 2 -> "2" [] n = 3 -> "3"
              [] n = 4 -> "4" [] n = 5 -> "5" [] n = 6 -> "6" [] n = 7 -> "7"
              [] n = 8 -> "8" [] n = 9 -> "9"

\* Utc::now().format("%m-%d"): month and day, each zero-padded to two digits
format_mm_dd(d) ==
    <<Digit(d[1] \div 10), Digit(d[1] % 10), "-",
      Digit(d[2] \div 10), Digit(d[2] % 10)>>

\* is_date_excluded comparing only the first configured date
is_date_excluded_first_only(excluded_dates, now) ==
    excluded_dates # <<>> /\ excluded_dates[1] = format_mm_dd(now)

is_date_excluded(excluded_dates, now) ==
    \E i \in 1..Len(excluded_dates) : excluded_dates[i] = format_mm_dd(now)

(***************************************************************************)
(* Environments the process is started in.                                 *)
(***************************************************************************)
ActionVals ==
    {Unset, <<>>, <<"s", "t", "o", "p">>, <<"S", "T", "O", "P">>,
     <<"S", "t", "a", "r", "t">>, <<"s", "t", "o", "p", " ">>,
     <<"r", "e", "s", "t", "a", "r", "t">>}
RegionVals ==
    {Unset, <<>>, <<" ", ",", " ">>, <<"a">>,
     <<" ", "b", " ", ",", "a", ",">>}
TagKeyVals == {Unset, <<"k">>}
TagValueVals == {Unset, <<"v">>}
DateVals ==
    {Unset, <<"0", "7", "-", "0", "4">>,
     <<" ", "7", "-", "4", " ", ",", "1", "2", "-", "0", "5">>}
Dates == {<<7, 4>>, <<12, 5>>}

FlagsUnset == [f \in Families |-> Unset]
FlagVals ==
    {FlagsUnset,
     [FlagsUnset EXCEPT !["ec2"] = <<"f", "a", "l", "s", "e">>],
     [f \in Families |-> IF f \in {"ec2", "rds"} THEN <<"T", "R", "U", "E">>
                         ELSE <<"t", "r", "u", "e">>],
     [FlagsUnset EXCEPT !["ec2"] = <<"0">>,
                        !["autoscaling"] = <<"T", "r", "u", "e">>],
     [FlagsUnset EXCEPT !["rds"] = <<"t", "r", "u", "e">>,
                        !["documentdb"] = <<"t", "r", "u", "e">>,
                        !["ecs"] = <<"y", "e", "s">>]}

MkEnv(a, r, k, v, flags, d) ==
    [n \in {"SCHEDULE_ACTION", "AWS_REGIONS", "TAG_KEY", "TAG_VALUE",
            "EXCLUDED_DATES"} \cup {FlagVar(f) : f \in Families} |->
        CASE n = "SCHEDULE_ACTION" -> a
          [] n = "AWS_REGIONS" -> r
          [] n = "TAG_KEY" -> k
          [] n = "TAG_VALUE" -> v
          [] n = "EXCLUDED_DATES" -> d
          [] OTHER -> flags[CHOOSE f \in Families : FlagVar(f) = n]]

\* every combination of the required variables with the optional ones unset,
\* and every combination of the optional ones with valid required variables
Envs ==
    {MkEnv(a, r, k, v, FlagsUnset, Unset) :
        a \in ActionVals, r \in RegionVals, k \in TagKeyVals, v \in TagValueVals}
    \cup
    {MkEnv(a, <<" ", "b", " ", ",", "a", ",">>, <<"k">>, <<"v">>, fl, d) :
        a \in {<<"S", "T", "O", "P">>, <<"S", "t", "a", "r", "t">>},
        fl \in FlagVals, d \in DateVals}

\* one family enabled alone, in one region
Only(f) ==
    [g \in Families |->
        IF g = f THEN <<"t", "r", "u", "e">> ELSE <<"f", "a", "l", "s", "e">>]
FamilyEnvs ==
    {MkEnv(a, <<"a">>, <<"k">>, <<"v">>, Only(f), Unset) :
        a \in {<<"s", "t", "o", "p">>, <<"s", "t", "a", "r", "t">>}, f \in Families}

\* the runs explored: every environment against an account with one resource
\* of each type, and each family alone against the full account
Setups ==
    (Envs \X {[ids |-> 1, pages |-> 1]})
    \cup (FamilyEnvs \X {[ids |-> NumIds, pages |-> MaxPages]})

(***************************************************************************)
(* Resources, ARNs and the identifiers the facades extract from them.      *)
(***************************************************************************)
Ids == 1..cloud.ids

ArnPrefix(service) ==
    <<"arn", ":", "aws", ":", service, ":", "r", ":", "acct", ":">>

Arn(type, n) ==
    CASE type = "ec2:instance" ->
             ArnPrefix("ec2") \o <<"instance", "/", "i", Digit(n)>>
      [] type = "apprunner:service" ->
             ArnPrefix("apprunner") \o <<"service", "/", "n", Digit(n), "/", "x">>
      [] type = "cloudwatch:alarm" ->
             ArnPrefix("cloudwatch") \o <<"alarm", ":", "a", Digit(n)>>
      [] type = "rds:cluster" ->
             ArnPrefix("rds") \o <<"cluster", ":", "c", Digit(n)>>
      [] type = "rds:db" ->
             ArnPrefix("rds") \o <<"db", ":", "d", Digit(n)>>
      [] type = "ecs:service" ->
             ArnPrefix("ecs") \o <<"service", "/", "c", "l", "/", "s", Digit(n)>>
      [] type = "redshift:cluster" ->
             ArnPrefix("redshift") \o <<"cluster", ":", "w", Digit(n)>>
      [] type = "transfer:server" ->
             ArnPrefix("transfer") \o <<"server", "/", "t", Digit(n)>>

Arns(type) == {Arn(type, n) : n \in Ids}

extract_instance_id(arn) == last(split(arn, "/"))
extract_rds_id(arn) == last(split(arn, ":"))
extract_docdb_cluster_id(arn) == last(split(arn, ":"))
extract_redshift_cluster_id(arn) == last(split(arn, ":"))
extract_alarm_name(arn) == last(split(arn, ":"))
extract_server_id(arn) == last(split(arn, "/"))
extract_service_name(arn) ==
    LET parts == split(arn, "/")
    IN IF Len(parts) >= 2 THEN parts[Len(parts) - 1] ELSE arn
\* extract_ecs_names taking the first two segments
extract_ecs_names_first_two(arn) ==
    LET parts == split(arn, "/")
    IN IF Len(parts) >= 3 THEN <<parts[1], parts[2]>> ELSE <<<<>>, arn>>

extract_ecs_names(arn) ==
    LET parts == split(arn, "/")
    IN IF Len(parts) >= 3
       THEN <<parts[Len(parts) - 1], parts[Len(parts)]>>
       ELSE <<<<>>, arn>>

(***************************************************************************)
(* Paginated listings.                                                     *)
(***************************************************************************)
NoToken == <<"<none>">>      \* Option::None
EmptyToken == <<>>           \* Some("")
Tok(k) == <<"t", Digit(k)>>  \* Some(non-empty cursor)
NoArn == <<"<no-arn>">>      \* a mapping whose resource_arn is None

NoListing ==
    [api |-> "none", type |-> "none", token |-> NoToken, reqTokens |-> <<>>,
     respTokens |-> <<>>, served |-> <<>>, acc |-> <<>>, requests |-> 0,
     members |-> <<>>]

\* entry of a listing function: empty accumulator, no token
NewListing(api, type) == [NoListing EXCEPT !.api = api, !.type = type]

\* the match without its `if !token.is_empty()` guard
has_more_unless_absent(token) == token # NoToken

\* match response.pagination_token() { Some(t) if !t.is_empty() => ..., _ => break }
has_more(token) == token # NoToken /\ token # EmptyToken

RECURSIVE Concat(_)
Concat(ss) == IF ss = <<>> THEN <<>> ELSE Head(ss) \o Concat(Tail(ss))

SeqsUpTo(S, n) == UNION {[1..k -> S] : k \in 0..n}

\* no extractor has been applied
NoExtract == [fn |-> "none", out |-> <<>>]

\* the strings the extractors are applied to: every string of at most MaxLen
\* characters over a letter and the two separators, and the ARNs of the model
Alphabet == {"a", "/", ":"}
ResourceTypes ==
    {"ec2:instance", "apprunner:service", "cloudwatch:alarm", "rds:cluster",
     "rds:db", "ecs:service", "redshift:cluster", "transfer:server"}
Inputs ==
    SeqsUpTo(Alphabet, MaxLen)
    \cup {Arn(type, n) : type \in ResourceTypes, n \in 1..NumIds}

Distinct(s) == \A i, j \in 1..Len(s) : i # j => s[i] # s[j]

DistinctSeqs(S) == {s \in SeqsUpTo(S, Cardinality(S)) : Distinct(s)}

\* what the tagging API may answer: a page of mappings of resources it has not
\* returned yet (or a mapping without an ARN), and a token (a cursor while
\* pages remain, else none or "")
PageChoices(l) ==
    DistinctSeqs(Arns(l.type) \ Range(Concat(l.served))) \cup {<<NoArn>>}

TokenChoices(l) ==
    {NoToken, EmptyToken}
    \cup (IF Len(l.served) + 1 < cloud.pages THEN {Tok(Len(l.served) + 1)} ELSE {})

\* the push loop starting at the second mapping of the page
PushArnsSkipsFirst(acc, pg) ==
    IF pg = <<>> THEN acc ELSE acc \o SelectSeq(Tail(pg), LAMBDA a : a # NoArn)

\* for mapping in response: if let Some(arn) = mapping.resource_arn() { push }
RECURSIVE PushArns(_, _)
PushArns(acc, pg) ==
    IF pg = <<>> THEN acc
    ELSE PushArns(IF Head(pg) = NoArn THEN acc ELSE Append(acc, Head(pg)), Tail(pg))

\* one request of the listing loop answered with page pg and token tok
Answered(l, pg, tok, acc) ==
    [l EXCEPT !.reqTokens = Append(@, l.token),
              !.requests = @ + 1,
              !.respTokens = Append(@, tok),
              !.served = Append(@, pg),
              !.acc = acc,
              !.token = IF has_more(tok) THEN tok ELSE l.token]

\* one request of the listing loop that failed
Refused(l) ==
    [l EXCEPT !.reqTokens = Append(@, l.token), !.requests = @ + 1]

\* the waiter before its first query: nothing reported running
NoObservation ==
    [last |-> {}, seen |-> {}, onePerTick |-> TRUE, failed |-> FALSE]

\* no instance or DB cluster of the region has been sent a request
NoActs == [once |-> {}, again |-> {}]

(***************************************************************************)
(* main and execute (main.rs).                                             *)
(***************************************************************************)
Init ==
    /\ \E su \in Setups : env = su[1] /\ cloud = su[2]
    /\ today = NoDate
    /\ config = NoConfig
    /\ pc = "main"
    /\ ri = 0
    /\ fi = 0
    /\ invoked = <<>>
    /\ nErr = 0
    /\ result = "none"
    /\ fpc = "idle"
    /\ ln = 0
    /\ lst = NoListing
    /\ arns = <<>>
    /\ arns2 = <<>>
    /\ phase = 0
    /\ idx = 0
    /\ calls = <<>>
    /\ skipped = {}
    /\ started = <<>>
    /\ attempt = 0
    /\ sleeps = 0
    /\ waitRes = "none"
    /\ observed = NoObservation
    /\ input = <<>>
    /\ extracted = NoExtract
    /\ acted = NoActs

\* main: AppConfig::from_env()? and, on success, execute(&config)
LoadConfig ==
    /\ pc = "main"
    /\ config' = from_env(env)
    /\ pc' = IF config'.ok THEN "execute" ELSE "failed"
    /\ UNCHANGED <<input, extracted, env, cloud, today, ri, fi, invoked, nErr,
                   acted>>
    /\ UNCHANGED facadeVars

\* execute: the exclusion gate, evaluated before the region loop
DateGate ==
    /\ pc = "execute"
    /\ \E now \in Dates :
        /\ today' = now
        /\ IF is_date_excluded(config.excluded_dates, now)
           THEN pc' = "done" /\ UNCHANGED <<ri, fi>>
           ELSE pc' = "regions" /\ ri' = 1 /\ fi' = 1
    /\ UNCHANGED <<input, extracted, env, cloud, config, invoked, nErr, acted>>
    /\ UNCHANGED facadeVars

CurFamily == FamilyOrder[fi]
CurRegion == config.aws_regions[ri]
\* the match on schedule_action with its arms exchanged
IsStopInverted == config.schedule_action # "Stop"

\* match config.schedule_action { Stop => scheduler.stop(..), Start => .start(..) }
IsStop == config.schedule_action = "Stop"

\* control moves to the next family block, the next region, or the final Ok(())
Advance ==
    IF fi < Len(FamilyOrder) THEN pc' = "regions" /\ ri' = ri /\ fi' = fi + 1
    ELSE IF ri < Len(config.aws_regions)
    THEN pc' = "regions" /\ ri' = ri + 1 /\ fi' = 1
    ELSE pc' = "done" /\ ri' = ri /\ fi' = fi

\* if config.<family>_schedule is false the block is not entered
SkipFamily ==
    /\ pc = "regions"
    /\ ~config.schedule[CurFamily]
    /\ Advance
    /\ acted' = IF ri' = ri THEN acted ELSE NoActs
    /\ UNCHANGED <<input, extracted, env, cloud, today, config, invoked, nErr>>
    /\ UNCHANGED facadeVars

\* a family block entered without its `if config.<family>_schedule` test
InvokeWhateverTheFlag(f, api, type) ==
    /\ pc = "regions"
    /\ CurFamily = f
    /\ pc' = "facade"
    /\ invoked' = Append(invoked, <<CurRegion, f>>)
    /\ result' = "none"
    /\ fpc' = "list"
    /\ ln' = 1
    /\ lst' = NewListing(api, type)
    /\ arns' = <<>>
    /\ arns2' = <<>>
    /\ phase' = 0
    /\ idx' = 0
    /\ calls' = <<>>
    /\ skipped' = {}
    /\ started' = <<>>
    /\ attempt' = 0
    /\ sleeps' = 0
    /\ waitRes' = "none"
    /\ observed' = NoObservation
    /\ UNCHANGED <<input, extracted, env, cloud, today, config, ri, fi, nErr,
                   acted>>

\* a family block is entered: the scheduler is built for the region and its
\* stop or start is called; the facade begins with its first listing
Invoke(f, api, type) ==
    /\ pc = "regions"
    /\ CurFamily = f
    /\ config.schedule[f]
    /\ pc' = "facade"
    /\ invoked' = Append(invoked, <<CurRegion, f>>)
    /\ result' = "none"
    /\ fpc' = "list"
    /\ ln' = 1
    /\ lst' = NewListing(api, type)
    /\ arns' = <<>>
    /\ arns2' = <<>>
    /\ phase' = 0
    /\ idx' = 0
    /\ calls' = <<>>
    /\ skipped' = {}
    /\ started' = <<>>
    /\ attempt' = 0
    /\ sleeps' = 0
    /\ waitRes' = "none"
    /\ observed' = NoObservation
    /\ UNCHANGED <<input, extracted, env, cloud, today, config, ri, fi, nErr,
                   acted>>

InvokeEc2 == Invoke("ec2", "get_resources", "ec2:instance")
InvokeAutoScaling == Invoke("autoscaling", "list_groups", "groups")
InvokeAppRunner == Invoke("apprunner", "get_resources", "apprunner:service")
InvokeCloudWatch == Invoke("cloudwatch", "get_resources", "cloudwatch:alarm")
InvokeDocumentDb == Invoke("documentdb", "get_resources", "rds:cluster")
InvokeEcs == Invoke("ecs", "get_resources", "ecs:service")
InvokeRds == Invoke("rds", "get_resources", "rds:cluster")
InvokeRedshift == Invoke("redshift", "get_resources", "redshift:cluster")
InvokeTransfer == Invoke("transfer", "get_resources", "transfer:server")

\* the family block with `break` after the error log
HandleResultBreaks ==
    /\ pc = "facade"
    /\ fpc = "ret"
    /\ nErr' = IF result = "err" THEN nErr + 1 ELSE nErr
    /\ IF result = "err"
       THEN IF ri < Len(config.aws_regions)
            THEN pc' = "regions" /\ ri' = ri + 1 /\ fi' = 1
            ELSE pc' = "done" /\ ri' = ri /\ fi' = fi
       ELSE Advance
    /\ acted' = IF ri' = ri THEN acted ELSE NoActs
    /\ UNCHANGED <<input, extracted, env, cloud, today, config, invoked>>
    /\ UNCHANGED facadeVars

\* the family block with `result?` in place of the error log
HandleResultReturnsErr ==
    /\ pc = "facade"
    /\ fpc = "ret"
    /\ nErr' = IF result = "err" THEN nErr + 1 ELSE nErr
    /\ IF result = "err"
       THEN pc' = "failed" /\ ri' = ri /\ fi' = fi
       ELSE Advance
    /\ acted' = IF ri' = ri THEN acted ELSE NoActs
    /\ UNCHANGED <<input, extracted, env, cloud, today, config, invoked>>
    /\ UNCHANGED facadeVars

\* if let Err(e) = result { error!(...) }: the result is logged and dropped
HandleResult ==
    /\ pc = "facade"
    /\ fpc = "ret"
    /\ nErr' = IF result = "err" THEN nErr + 1 ELSE nErr
    /\ Advance
    /\ acted' = IF ri' = ri THEN acted ELSE NoActs
    /\ UNCHANGED <<input, extracted, env, cloud, today, config, invoked>>
    /\ UNCHANGED facadeVars

(***************************************************************************)
(* get_resources (filter_resources_by_tags.rs): one iteration of its loop. *)
(***************************************************************************)
\* the listing function returned Ok(acc) to the facade
Listed(acc) ==
    /\ fpc' = "listed"
    /\ result' = result
    /\ IF ln = 1 THEN arns' = acc /\ arns2' = arns2
                 ELSE arns2' = acc /\ arns' = arns

\* the request failed and the listing returns what it has so far as Ok
ListFailedSwallowed ==
    /\ lst' = Refused(lst)
    /\ Listed(lst.acc)

\* the request failed: `?` returns the error from the listing function and
\* from the facade
ListFailed ==
    /\ lst' = Refused(lst)
    /\ fpc' = "ret"
    /\ result' = "err"
    /\ UNCHANGED <<arns, arns2>>

GetResourcesPage ==
    /\ pc = "facade"
    /\ fpc = "list"
    /\ lst.api = "get_resources"
    /\ \/ ListFailed
       \/ \E pg \in PageChoices(lst), tok \in TokenChoices(lst) :
            LET acc == PushArns(lst.acc, pg)
            IN /\ lst' = Answered(lst, pg, tok, acc)
               /\ IF has_more(tok)
                  THEN UNCHANGED <<fpc, result, arns, arns2>>
                  ELSE Listed(acc)
    /\ UNCHANGED orchVars
    /\ UNCHANGED <<ln, phase, idx, calls, skipped, started, attempt, sleeps, waitRes,
                   observed, acted>>

(***************************************************************************)
(* Auto Scaling listings (autoscaling.rs): list_groups and list_instances. *)
(***************************************************************************)
GroupName(n) == <<"g", Digit(n)>>
InstanceId(n) == <<"i", Digit(n)>>
GroupNames == {GroupName(n) : n \in Ids}

\* group memberships the account may be in: no instances, instance n in
\* group n, or every instance in the first group
Memberships ==
    {[g \in GroupNames |-> <<>>],
     [g \in GroupNames |-> <<InstanceId(CHOOSE n \in Ids : g = GroupName(n))>>],
     [g \in GroupNames |->
         IF g = GroupName(1) THEN [n \in Ids |-> InstanceId(n)] ELSE <<>>]}

Tag(k, v) == [key |-> k, value |-> v]
TagLists ==
    {<<>>,
     <<Tag(<<"k">>, <<"V">>), Tag(<<"K">>, <<"v">>), Tag(<<"k">>, <<"*">>)>>,
     <<Tag(<<"x">>, <<"v">>), Tag(<<"k">>, <<"v">>), Tag(<<"k">>, <<"v">>)>>}

Group(name, tags, instances) ==
    [name |-> name, tags |-> tags, instances |-> instances]

RECURSIVE Names(_)
Names(pg) == IF pg = <<>> THEN <<>> ELSE <<Head(pg).name>> \o Names(Tail(pg))

RECURSIVE Members(_)
Members(pg) ==
    IF pg = <<>> THEN <<>> ELSE Head(pg).instances \o Members(Tail(pg))

\* what DescribeAutoScalingGroups may answer without a name filter: a page of
\* groups it has not returned yet, each with its tags
GroupPageChoices(l) ==
    UNION {{[i \in 1..Len(ns) |-> Group(ns[i], ts[i], <<>>)] :
               ts \in [1..Len(ns) -> TagLists]} :
           ns \in DistinctSeqs(GroupNames \ Range(Names(Concat(l.served))))}

\* ... and with the names filter: a page of requested groups it has not
\* returned yet, each with its member instances
MemberPageChoices(l, group_names) ==
    {[i \in 1..Len(ns) |-> Group(ns[i], <<>>, l.members[ns[i]])] :
        ns \in DistinctSeqs(Range(group_names) \ Range(Names(Concat(l.served))))}

\* the tag comparison made without regard to letter case
group_matches_ignoring_case(tags, tag_key, tag_value) ==
    \E i \in 1..Len(tags) :
        /\ to_lowercase(tags[i].key) = to_lowercase(tag_key)
        /\ to_lowercase(tags[i].value) = to_lowercase(tag_value)

\* for tag in group.tags(): the first tag equal to (tag_key, tag_value)
\* pushes the group's name and breaks
group_matches(tags, tag_key, tag_value) ==
    \E i \in 1..Len(tags) : tags[i].key = tag_key /\ tags[i].value = tag_value

RECURSIVE PushMatching(_, _, _, _)
PushMatching(acc, pg, tag_key, tag_value) ==
    IF pg = <<>> THEN acc
    ELSE PushMatching(
             IF group_matches(Head(pg).tags, tag_key, tag_value)
             THEN Append(acc, Head(pg).name) ELSE acc,
             Tail(pg), tag_key, tag_value)

\* for group in resp.auto_scaling_groups(): for instance in group.instances()
PushMembers(acc, pg) == acc \o Members(pg)

ListGroupsPage ==
    /\ pc = "facade"
    /\ fpc = "list"
    /\ lst.api = "list_groups"
    /\ \/ ListFailed
       \/ \E pg \in GroupPageChoices(lst), tok \in TokenChoices(lst) :
            LET acc == PushMatching(lst.acc, pg, config.tag_key, config.tag_value)
            IN /\ lst' = Answered(lst, pg, tok, acc)
               /\ IF has_more(tok)
                  THEN UNCHANGED <<fpc, result, arns, arns2>>
                  ELSE Listed(acc)
    /\ UNCHANGED orchVars
    /\ UNCHANGED <<ln, phase, idx, calls, skipped, started, attempt, sleeps, waitRes,
                   observed, acted>>

\* list_instances without its `if group_names.is_empty()` return
ListInstancesAlwaysQueries ==
    /\ pc = "facade"
    /\ fpc = "listed"
    /\ CurFamily = "autoscaling"
    /\ ln = 1
    /\ ln' = 2
    /\ \E m \in Memberships :
          lst' = [NewListing("list_instances", "instances") EXCEPT !.members = m]
    /\ fpc' = "list"
    /\ arns2' = <<>>
    /\ UNCHANGED orchVars
    /\ UNCHANGED <<result, arns, phase, idx, calls, skipped, started, attempt,
                   sleeps, waitRes, observed, acted>>

\* instances the Compute Instance facade called in this region: their lookup
\* reported no group, and they stay in none for the rest of the run
Unowned == {r[3] : r \in {x \in acted.once : x[1] = "ec2:instance"}}

\* list_instances is entered: with no group names it returns Ok(vec![]) at
\* once, otherwise its loop starts
ListInstancesBegin ==
    /\ pc = "facade"
    /\ fpc = "listed"
    /\ CurFamily = "autoscaling"
    /\ ln = 1
    /\ ln' = 2
    /\ IF arns = <<>>
       THEN lst' = NewListing("list_instances", "instances") /\ fpc' = "listed"
       ELSE /\ \E m \in Memberships :
                 /\ \A g \in GroupNames : Range(m[g]) \cap Unowned = {}
                 /\ lst' = [NewListing("list_instances", "instances")
                                EXCEPT !.members = m]
            /\ fpc' = "list"
    /\ arns2' = <<>>
    /\ UNCHANGED orchVars
    /\ UNCHANGED <<result, arns, phase, idx, calls, skipped, started, attempt,
                   sleeps, waitRes, observed, acted>>

ListInstancesPage ==
    /\ pc = "facade"
    /\ fpc = "list"
    /\ lst.api = "list_instances"
    /\ \/ ListFailed
       \/ \E pg \in MemberPageChoices(lst, arns), tok \in TokenChoices(lst) :
            LET acc == PushMembers(lst.acc, pg)
            IN /\ lst' = Answered(lst, pg, tok, acc)
               /\ IF has_more(tok)
                  THEN UNCHANGED <<fpc, result, arns, arns2>>
                  ELSE Listed(acc)
    /\ UNCHANGED orchVars
    /\ UNCHANGED <<ln, phase, idx, calls, skipped, started, attempt, sleeps, waitRes,
                   observed, acted>>

\* RdsScheduler: the second get_resources call, for "rds:db"
RdsListInstances ==
    /\ pc = "facade"
    /\ fpc = "listed"
    /\ CurFamily = "rds"
    /\ ln = 1
    /\ ln' = 2
    /\ lst' = NewListing("get_resources", "rds:db")
    /\ fpc' = "list"
    /\ UNCHANGED orchVars
    /\ UNCHANGED <<result, arns, arns2, phase, idx, calls, skipped, started,
                   attempt, sleeps, waitRes, observed, acted>>

(***************************************************************************)
(* The loops of the facades.                                               *)
(***************************************************************************)
NumListings(f) == IF f \in {"rds", "autoscaling"} THEN 2 ELSE 1

\* RdsScheduler without its instance loop
RdsLoopsClustersOnly == <<"arns">>
\* AutoScalingScheduler::stop with its two loops exchanged
AsgStopLoopsInstancesFirst == <<"arns2", "arns">>

\* the lists a facade iterates, in the order of its `for` loops
FlatLoops == <<"arns">>               \* for arn in &arns
RdsLoops == <<"arns", "arns2">>       \* clusters, then instances
AsgStopLoops == <<"arns", "arns2">>   \* suspend groups, then stop instances
AsgStartLoops == <<"arns2", "arns">>  \* start instances, then resume groups

Loops ==
    IF CurFamily = "rds" THEN RdsLoops
    ELSE IF CurFamily = "autoscaling"
    THEN (IF IsStop THEN AsgStopLoops ELSE AsgStartLoops)
    ELSE FlatLoops

ListOf(name) == IF name = "arns" THEN arns ELSE arns2

\* the loop that runs in phase p
InLoop(name) == phase \in 1..Len(Loops) /\ Loops[phase] = name

ValidPos(p, i) == p \in 1..Len(Loops) /\ i \in 1..Len(ListOf(Loops[p]))

\* the first loop element at or after (p, i); <<0, 0>> when the loops are over
NextPos(p, i) ==
    IF ValidPos(p, i) THEN <<p, i>>
    ELSE IF ValidPos(p + 1, 1) THEN <<p + 1, 1>>
    ELSE <<0, 0>>

\* continue at pos, or return Ok(()) when the loops are over
GoPos(pos) ==
    /\ phase' = pos[1]
    /\ idx' = pos[2]
    /\ fpc' = IF pos = <<0, 0>> THEN "ret" ELSE "act"
    /\ result' = IF pos = <<0, 0>> THEN "ok" ELSE result

\* the first loop entered as soon as the first listing has returned
FoundAfterFirstListing ==
    /\ pc = "facade"
    /\ fpc = "listed"
    /\ ln = 1
    /\ lst' = [NoListing EXCEPT !.members = lst.members]
    /\ GoPos(NextPos(1, 1))
    /\ UNCHANGED orchVars
    /\ UNCHANGED <<ln, arns, arns2, calls, skipped, started, attempt, sleeps,
                   waitRes, observed, acted>>

\* discovery is over: info!("Found ..."), then the first loop; the listing
\* state is dropped, the account's group memberships stay what they are
Found ==
    /\ pc = "facade"
    /\ fpc = "listed"
    /\ ln = NumListings(CurFamily)
    /\ lst' = [NoListing EXCEPT !.members = lst.members]
    /\ GoPos(NextPos(1, 1))
    /\ UNCHANGED orchVars
    /\ UNCHANGED <<ln, arns, arns2, calls, skipped, started, attempt, sleeps,
                   waitRes, observed, acted>>

\* one request to a service; `before` is the desired count an ECS service
\* had when its update_service request was sent
Call(client, op, target, ok) ==
    [client |-> client, op |-> op, target |-> target, cluster |-> <<>>,
     desired_count |-> -1, before |-> -1, ok |-> ok]

\* the resource a request acts on: its type and its identifier (an ECS
\* service is named within its cluster)
ResourceOf(c) ==
    <<CASE c.op \in {"stop_instances", "start_instances"} -> "ec2:instance"
        [] c.op \in {"stop_db_cluster", "start_db_cluster"} -> "rds:cluster"
        [] OTHER -> c.client,
      c.cluster, c.target>>

\* the resource is of a type two facades send requests for: instances (EC2
\* and Auto Scaling) and DB clusters (DocumentDB and RDS)
Shared(r) == r[1] \in {"ec2:instance", "rds:cluster"}

\* the shared resources of the region that have been sent a request, and
\* those that have been sent one more than once, after the requests cs
RECURSIVE ActOn(_, _)
ActOn(a, cs) ==
    IF cs = <<>> THEN a
    ELSE ActOn(IF Shared(ResourceOf(Head(cs)))
               THEN [once |-> a.once \cup {ResourceOf(Head(cs))},
                     again |-> a.again \cup ({ResourceOf(Head(cs))} \cap a.once)]
               ELSE a,
               Tail(cs))

\* the requests the step has sent are on record
Recorded == acted' = ActOn(acted, SubSeq(calls', Len(calls) + 1, Len(calls')))

\* the loop body with `self.<verb>(target).await?`: a failure leaves the facade
ItemPropagates(f, list, call) ==
    /\ pc = "facade"
    /\ fpc = "act"
    /\ CurFamily = f
    /\ InLoop(list)
    /\ \E ok \in BOOLEAN :
        /\ calls' = Append(calls, [call EXCEPT !.ok = ok])
        /\ IF ok THEN GoPos(NextPos(phase, idx + 1))
                 ELSE fpc' = "ret" /\ result' = "err" /\ UNCHANGED <<phase, idx>>
    /\ Recorded
    /\ UNCHANGED orchVars
    /\ UNCHANGED <<ln, lst, arns, arns2, skipped, started, attempt, sleeps, waitRes,
                   observed>>

\* if let Err(e) = self.<verb>(target).await { error!(...) }: the call is made,
\* a failure is logged, and the loop moves on
Item(f, list, call) ==
    /\ pc = "facade"
    /\ fpc = "act"
    /\ CurFamily = f
    /\ InLoop(list)
    /\ \E ok \in BOOLEAN : calls' = Append(calls, [call EXCEPT !.ok = ok])
    /\ GoPos(NextPos(phase, idx + 1))
    /\ Recorded
    /\ UNCHANGED orchVars
    /\ UNCHANGED <<ln, lst, arns, arns2, skipped, started, attempt, sleeps, waitRes,
                   observed>>

AppRunnerItem ==
    /\ pc = "facade"
    /\ fpc = "act"
    /\ CurFamily = "apprunner"
    /\ Item("apprunner", "arns",
         Call("apprunner", IF IsStop THEN "pause_service" ELSE "resume_service",
              arns[idx], TRUE))

CloudWatchItem ==
    /\ pc = "facade"
    /\ fpc = "act"
    /\ CurFamily = "cloudwatch"
    /\ Item("cloudwatch", "arns",
         Call("cloudwatch",
              IF IsStop THEN "disable_alarm_actions" ELSE "enable_alarm_actions",
              extract_alarm_name(arns[idx]), TRUE))

DocumentDbItem ==
    /\ pc = "facade"
    /\ fpc = "act"
    /\ CurFamily = "documentdb"
    /\ Item("documentdb", "arns",
         Call("docdb", IF IsStop THEN "stop_db_cluster" ELSE "start_db_cluster",
              extract_docdb_cluster_id(arns[idx]), TRUE))

\* desired counts a service may have when the run reaches it: stopped earlier,
\* or still at the count it was given
ServiceCounts == {0, 3}

\* start giving a service that still has a positive count that count again
EcsItemKeepsCount ==
    \E before \in ServiceCounts :
        Item("ecs", "arns",
             [Call("ecs", "update_service", extract_ecs_names(arns[idx])[2], TRUE)
                  EXCEPT !.cluster = extract_ecs_names(arns[idx])[1],
                         !.before = before,
                         !.desired_count = IF IsStop THEN 0
                                           ELSE IF before > 0 THEN before ELSE 1])

\* the loop body of stop and start: update_service(cluster, service, 0 or 1)
EcsItem ==
    \E before \in ServiceCounts :
        Item("ecs", "arns",
             [Call("ecs", "update_service", extract_ecs_names(arns[idx])[2], TRUE)
                  EXCEPT !.cluster = extract_ecs_names(arns[idx])[1],
                         !.before = before,
                         !.desired_count = IF IsStop THEN 0 ELSE 1])

RdsClusterItem ==
    /\ pc = "facade"
    /\ fpc = "act"
    /\ CurFamily = "rds"
    /\ Item("rds", "arns",
         Call("rds", IF IsStop THEN "stop_db_cluster" ELSE "start_db_cluster",
              extract_rds_id(arns[idx]), TRUE))

RdsInstanceItem ==
    /\ pc = "facade"
    /\ fpc = "act"
    /\ CurFamily = "rds"
    /\ Item("rds", "arns2",
         Call("rds", IF IsStop THEN "stop_db_instance" ELSE "start_db_instance",
              extract_rds_id(arns2[idx]), TRUE))

RedshiftItem ==
    /\ pc = "facade"
    /\ fpc = "act"
    /\ CurFamily = "redshift"
    /\ Item("redshift", "arns",
         Call("redshift", IF IsStop THEN "pause_cluster" ELSE "resume_cluster",
              extract_redshift_cluster_id(arns[idx]), TRUE))

TransferItem ==
    /\ pc = "facade"
    /\ fpc = "act"
    /\ CurFamily = "transfer"
    /\ Item("transfer", "arns",
         Call("transfer", IF IsStop THEN "stop_server" ELSE "start_server",
              extract_server_id(arns[idx]), TRUE))

(***************************************************************************)
(* Ec2Scheduler (ec2.rs).                                                  *)
(***************************************************************************)
\* an instance process_instance returned for without a stop or start call:
\* the lookup failed (Err, logged by the loop) or named a group (Ok(())).
\* `owned` is whether the instance does belong to a group, which a failed
\* lookup leaves unknown to the program
Skipped(id, why, owned) ==
    [id |-> id, why |-> why, ok |-> why = "owned", owned |-> owned]

\* the outcomes of the membership lookup that end process_instance
Skips(id) ==
    {Skipped(id, "owned", TRUE)}
    \cup {Skipped(id, "lookup_failed", owned) : owned \in BOOLEAN}

\* process_instance without its early return for an instance of a group
Ec2ProcessInstanceActsOnOwned ==
    /\ pc = "facade"
    /\ fpc = "act"
    /\ CurFamily = "ec2"
    /\ LET id == extract_instance_id(arns[idx])
           op == IF IsStop THEN "stop_instances" ELSE "start_instances"
       IN \/ /\ \E owned \in BOOLEAN :
                    skipped' = skipped \cup {Skipped(id, "lookup_failed", owned)}
             /\ UNCHANGED calls
          \/ /\ skipped' = skipped \cup {Skipped(id, "owned", TRUE)}
             /\ \E ok \in BOOLEAN : calls' = Append(calls, Call("ec2", op, id, ok))
          \/ /\ \E ok \in BOOLEAN : calls' = Append(calls, Call("ec2", op, id, ok))
             /\ UNCHANGED skipped
    /\ GoPos(NextPos(phase, idx + 1))
    /\ Recorded
    /\ UNCHANGED orchVars
    /\ UNCHANGED <<ln, lst, arns, arns2, started, attempt, sleeps, waitRes,
                   observed>>

\* process_instance calling stop/start a second time when the first call failed
Ec2ProcessInstanceRetries ==
    /\ pc = "facade"
    /\ fpc = "act"
    /\ CurFamily = "ec2"
    /\ LET id == extract_instance_id(arns[idx])
           op == IF IsStop THEN "stop_instances" ELSE "start_instances"
       IN \/ /\ \E s \in Skips(id) : skipped' = skipped \cup {s}
             /\ UNCHANGED calls
          \/ /\ calls' = Append(calls, Call("ec2", op, id, TRUE))
             /\ UNCHANGED skipped
          \/ /\ \E ok \in BOOLEAN :
                    calls' = calls \o <<Call("ec2", op, id, FALSE),
                                        Call("ec2", op, id, ok)>>
             /\ UNCHANGED skipped
    /\ GoPos(NextPos(phase, idx + 1))
    /\ Recorded
    /\ UNCHANGED orchVars
    /\ UNCHANGED <<ln, lst, arns, arns2, started, attempt, sleeps, waitRes,
                   observed>>

\* process_instance: the membership lookup, then (for an instance of no
\* group) the stop or start call; any error is logged by the caller's loop
Ec2ProcessInstance ==
    /\ pc = "facade"
    /\ fpc = "act"
    /\ CurFamily = "ec2"
    /\ LET id == extract_instance_id(arns[idx])
           op == IF IsStop THEN "stop_instances" ELSE "start_instances"
       IN \/ /\ \E s \in Skips(id) : skipped' = skipped \cup {s}
             /\ UNCHANGED calls
          \/ /\ \E ok \in BOOLEAN : calls' = Append(calls, Call("ec2", op, id, ok))
             /\ UNCHANGED skipped
    /\ GoPos(NextPos(phase, idx + 1))
    /\ Recorded
    /\ UNCHANGED orchVars
    /\ UNCHANGED <<ln, lst, arns, arns2, started, attempt, sleeps, waitRes,
                   observed>>

(***************************************************************************)
(* AutoScalingScheduler (autoscaling.rs).                                  *)
(***************************************************************************)
MaxAttempts == 40

AsgSuspendGroup ==
    /\ pc = "facade"
    /\ IsStop
    /\ Item("autoscaling", "arns", Call("asg", "suspend_processes", arns[idx], TRUE))

AsgStopInstance ==
    /\ pc = "facade"
    /\ IsStop
    /\ Item("autoscaling", "arns2", Call("ec2", "stop_instances", arns2[idx], TRUE))

\* the start loop remembering every instance it called start for
AsgStartInstanceWaitsForAll ==
    /\ pc = "facade"
    /\ ~IsStop
    /\ fpc = "act"
    /\ CurFamily = "autoscaling"
    /\ InLoop("arns2")
    /\ \E ok \in BOOLEAN :
        /\ calls' = Append(calls, Call("ec2", "start_instances", arns2[idx], ok))
        /\ started' = Append(started, arns2[idx])
        /\ IF ValidPos(phase, idx + 1)
           THEN GoPos(NextPos(phase, idx + 1))
           ELSE /\ fpc' = "wait"
                /\ phase' = phase
                /\ idx' = 0
                /\ result' = result
    /\ Recorded
    /\ UNCHANGED orchVars
    /\ UNCHANGED <<ln, lst, arns, arns2, skipped, attempt, sleeps, waitRes,
                   observed>>

\* start loop: a started instance is remembered; after the last one the
\* waiter runs if anything was started, then the resume loop
AsgStartInstance ==
    /\ pc = "facade"
    /\ ~IsStop
    /\ fpc = "act"
    /\ CurFamily = "autoscaling"
    /\ InLoop("arns2")
    /\ \E ok \in BOOLEAN :
        /\ calls' = Append(calls, Call("ec2", "start_instances", arns2[idx], ok))
        /\ started' = IF ok THEN Append(started, arns2[idx]) ELSE started
        /\ IF ValidPos(phase, idx + 1) \/ started' = <<>>
           THEN GoPos(NextPos(phase, idx + 1))
           ELSE /\ fpc' = "wait"
                /\ phase' = phase
                /\ idx' = 0
                /\ result' = result
    /\ Recorded
    /\ UNCHANGED orchVars
    /\ UNCHANGED <<ln, lst, arns, arns2, skipped, attempt, sleeps, waitRes,
                   observed>>

\* the success test satisfied by any running instance
any_running(running) == Cardinality(running) >= 1

\* running_count == instance_ids.len()
all_running(running) == Cardinality(running) = Len(started)

\* the loop written `for attempt in 0..=max_attempts`: one iteration more
exhausted_one_later(n) == n = MaxAttempts + 1

\* the loop `for attempt in 1..=max_attempts` has run its last iteration
exhausted(n) == n = MaxAttempts

\* what the state queries have reported: the instances the latest response
\* reports running, those any response has, whether each response so far
\* reported the instances of the one before and one more, and whether the
\* latest query failed
Observe(running) ==
    [last |-> running,
     seen |-> observed.seen \cup running,
     onePerTick |-> /\ observed.onePerTick
                    /\ observed.last \subseteq running
                    /\ Cardinality(running) = Cardinality(observed.last) + 1,
     failed |-> FALSE]

\* a failed query taken for a response that reports nothing running
QueryFailedCountsAsTick ==
    /\ waitRes' = IF exhausted(attempt') THEN "timeout" ELSE "none"
    /\ sleeps' = sleeps + 1
    /\ observed' = [observed EXCEPT !.onePerTick = FALSE, !.failed = TRUE]

\* req.send().await? fails: the error is returned at once
QueryFailed ==
    /\ waitRes' = "error"
    /\ sleeps' = sleeps
    /\ observed' = [observed EXCEPT !.onePerTick = FALSE, !.failed = TRUE]

\* the response reports `running`: all of the instances ends the wait with
\* Ok, otherwise the waiter sleeps, and after the last attempt it bails
QueryAnswered(running) ==
    /\ observed' = Observe(running)
    /\ IF all_running(running)
       THEN waitRes' = "ok" /\ sleeps' = sleeps
       ELSE /\ sleeps' = sleeps + 1
            /\ waitRes' = IF exhausted(attempt') THEN "timeout" ELSE "none"

\* wait_instances_running: one iteration of `for attempt in 1..=max_attempts`
WaitTick ==
    /\ pc = "facade"
    /\ fpc = "wait"
    /\ attempt' = attempt + 1
    /\ \/ QueryFailed
       \/ \E running \in SUBSET Range(started) : QueryAnswered(running)
    /\ fpc' = IF waitRes' = "none" THEN "wait" ELSE "waited"
    /\ UNCHANGED orchVars
    /\ UNCHANGED <<result, ln, lst, arns, arns2, phase, idx, calls, skipped, started,
                   acted>>

\* start calling the waiter again when it returned the timeout error
AfterWaitRetriesOnTimeout ==
    /\ pc = "facade"
    /\ fpc = "waited"
    /\ attempt' = 0
    /\ sleeps' = 0
    /\ observed' = NoObservation
    /\ IF waitRes = "timeout"
       THEN /\ fpc' = "wait"
            /\ waitRes' = "none"
            /\ UNCHANGED <<phase, idx, result>>
       ELSE /\ GoPos(NextPos(phase + 1, 1))
            /\ UNCHANGED waitRes
    /\ UNCHANGED orchVars
    /\ UNCHANGED <<ln, lst, arns, arns2, calls, skipped, started, acted>>

\* start, after the waiter returned: an Err is logged and dropped, and the
\* resume loop follows in every case (the waiter's locals are gone)
AfterWait ==
    /\ pc = "facade"
    /\ fpc = "waited"
    /\ attempt' = 0
    /\ sleeps' = 0
    /\ observed' = NoObservation
    /\ GoPos(NextPos(phase + 1, 1))
    /\ UNCHANGED orchVars
    /\ UNCHANGED <<ln, lst, arns, arns2, calls, skipped, started, waitRes, acted>>

AsgResumeGroup ==
    /\ pc = "facade"
    /\ ~IsStop
    /\ Item("autoscaling", "arns", Call("asg", "resume_processes", arns[idx], TRUE))

(***************************************************************************)
(* The program.                                                            *)
(***************************************************************************)
Next ==
    \/ LoadConfig
    \/ DateGate
    \/ SkipFamily
    \/ InvokeEc2
    \/ InvokeAutoScaling
    \/ InvokeAppRunner
    \/ InvokeCloudWatch
    \/ InvokeDocumentDb
    \/ InvokeEcs
    \/ InvokeRds
    \/ InvokeRedshift
    \/ InvokeTransfer
    \/ HandleResult
    \/ GetResourcesPage
    \/ ListGroupsPage
    \/ ListInstancesBegin
    \/ ListInstancesPage
    \/ RdsListInstances
    \/ Found
    \/ Ec2ProcessInstance
    \/ AppRunnerItem
    \/ CloudWatchItem
    \/ DocumentDbItem
    \/ EcsItem
    \/ RdsClusterItem
    \/ RdsInstanceItem
    \/ RedshiftItem
    \/ TransferItem
    \/ AsgSuspendGroup
    \/ AsgStopInstance
    \/ AsgStartInstance
    \/ WaitTick
    \/ AfterWait
    \/ AsgResumeGroup

Spec == Init /\ [][Next]_vars

\* the process is one sequential task (#[tokio::main], every call awaited in
\* turn): while a step is possible, and every awaited call returns, it is taken
SpecLive == Init /\ [][Next]_vars /\ WF_vars(Next)

(***************************************************************************)
(* The ARN extractors applied to arbitrary strings.                        *)
(***************************************************************************)
InitExtract ==
    /\ env = MkEnv(Unset, Unset, Unset, Unset, FlagsUnset, Unset)
    /\ cloud = [ids |-> 1, pages |-> 1]
    /\ today = NoDate
    /\ config = NoConfig
    /\ pc = "extract"
    /\ ri = 0
    /\ fi = 0
    /\ invoked = <<>>
    /\ nErr = 0
    /\ result = "none"
    /\ fpc = "idle"
    /\ ln = 0
    /\ lst = NoListing
    /\ arns = <<>>
    /\ arns2 = <<>>
    /\ phase = 0
    /\ idx = 0
    /\ calls = <<>>
    /\ skipped = {}
    /\ started = <<>>
    /\ attempt = 0
    /\ sleeps = 0
    /\ waitRes = "none"
    /\ observed = NoObservation
    /\ input \in Inputs
    /\ extracted = NoExtract
    /\ acted = NoActs

\* one extractor is called on the input and returns out
Extract(fn, out) ==
    /\ pc = "extract"
    /\ extracted = NoExtract
    /\ extracted' = [fn |-> fn, out |-> out]
    /\ UNCHANGED <<input, env, cloud, today, config, pc, ri, fi, invoked, nErr,
                   acted>>
    /\ UNCHANGED facadeVars

ExtractInstanceId == Extract("extract_instance_id", extract_instance_id(input))
ExtractRdsId == Extract("extract_rds_id", extract_rds_id(input))
ExtractDocdbClusterId ==
    Extract("extract_docdb_cluster_id", extract_docdb_cluster_id(input))
ExtractRedshiftClusterId ==
    Extract("extract_redshift_cluster_id", extract_redshift_cluster_id(input))
ExtractAlarmName == Extract("extract_alarm_name", extract_alarm_name(input))
ExtractServerId == Extract("extract_server_id", extract_server_id(input))
ExtractServiceName == Extract("extract_service_name", extract_service_name(input))
ExtractEcsNames == Extract("extract_ecs_names", extract_ecs_names(input))

NextExtract ==
    \/ ExtractInstanceId
    \/ ExtractRdsId
    \/ ExtractDocdbClusterId
    \/ ExtractRedshiftClusterId
    \/ ExtractAlarmName
    \/ ExtractServerId
    \/ ExtractServiceName
    \/ ExtractEcsNames

SpecExtract == InitExtract /\ [][NextExtract]_vars

(***************************************************************************)
(* Vocabulary of the properties.                                           *)
(***************************************************************************)
\* the family of the facade invocation the facade variables belong to
LastFamily == invoked[Len(invoked)][2]

\* the facade has returned after completing its discovery
ReturnedAfterDiscovery == fpc = "ret" /\ lst.api = "none"

\* the identifier a resource is named by in its state-changing call
TargetOf(f, r) ==
    CASE f = "ec2" -> extract_instance_id(r)
      [] f = "cloudwatch" -> extract_alarm_name(r)
      [] f = "documentdb" -> extract_docdb_cluster_id(r)
      [] f = "ecs" -> extract_ecs_names(r)[2]
      [] f = "rds" -> extract_rds_id(r)
      [] f = "redshift" -> extract_redshift_cluster_id(r)
      [] f = "transfer" -> extract_server_id(r)
      [] OTHER -> r

CalledFor(t) == \E j \in 1..Len(calls) : calls[j].target = t
SkippedIds == {s.id : s \in skipped}

\* no API call has been made by the run
NoApiCall ==
    /\ invoked = <<>>
    /\ fpc = "idle"
    /\ lst.requests = 0
    /\ calls = <<>>
    /\ skipped = {}
    /\ attempt = 0

\* today's MM-DD is one of the configured excluded dates
TodayExcluded ==
    /\ config.ok
    /\ today # NoDate
    /\ format_mm_dd(today) \in Range(config.excluded_dates)

(***************************************************************************)
(* C1.  Per-resource failure isolation.                                    *)
(***************************************************************************)
\* C1 as stated: whatever state-changing calls fail, when a facade returns
\* after discovery it returns success and its state-changing call has been
\* attempted for every discovered resource.
C1_EveryResourceAttempted ==
    ReturnedAfterDiscovery =>
        /\ result = "ok"
        /\ \A i \in 1..Len(arns) : CalledFor(TargetOf(LastFamily, arns[i]))
        /\ \A i \in 1..Len(arns2) : CalledFor(TargetOf(LastFamily, arns2[i]))

\* C1 amended: the same, except that the Compute Instance facade issues no
\* call for an instance whose membership lookup failed or reported an owning
\* group; every other discovered resource has its call attempted whatever
\* calls fail, and the facade returns success.
C1_FailureIsolation ==
    ReturnedAfterDiscovery =>
        /\ result = "ok"
        /\ \A i \in 1..Len(arns) :
               \/ CalledFor(TargetOf(LastFamily, arns[i]))
               \/ /\ LastFamily = "ec2"
                  /\ TargetOf(LastFamily, arns[i]) \in SkippedIds
        /\ \A i \in 1..Len(arns2) : CalledFor(TargetOf(LastFamily, arns2[i]))

\* a facade returned success although the call of its first resource failed
\* and calls for further resources followed
C1_Witness ==
    /\ ReturnedAfterDiscovery
    /\ Len(calls) >= 2
    /\ ~calls[1].ok
    /\ result = "ok"

(***************************************************************************)
(* C2.  Attempted calls against discovered resources.                      *)
(***************************************************************************)
\* C2 as stated: in every facade, Compute Instance included, the number of
\* state-changing calls attempted equals the number of resources discovered.
C2_CallsEqualDiscovered ==
    ReturnedAfterDiscovery => Len(calls) = Len(arns) + Len(arns2)

\* C2 amended: the number of state-changing calls attempted equals the number
\* of resources discovered, less (in the Compute Instance facade) the
\* instances whose membership lookup failed or reported an owning group.
C2_CallsEqualEligible ==
    ReturnedAfterDiscovery =>
        Len(calls) = Len(arns) + Len(arns2)
                     - (IF LastFamily = "ec2" THEN Cardinality(skipped) ELSE 0)

\* the Compute Instance facade returned having skipped one instance and
\* made a failing call for another
C2_Witness ==
    /\ ReturnedAfterDiscovery
    /\ LastFamily = "ec2"
    /\ skipped # {}
    /\ \E j \in 1..Len(calls) : ~calls[j].ok

(***************************************************************************)
(* C3.  Family x region failure isolation.                                 *)
(***************************************************************************)
Enabled(r, f) ==
    /\ r \in 1..Len(config.aws_regions)
    /\ f \in 1..Len(FamilyOrder)
    /\ config.schedule[FamilyOrder[f]]

Invocation(r, f) == <<config.aws_regions[r], FamilyOrder[f]>>

\* C3: whatever facades returned an error, every enabled family block that
\* control has passed has been invoked, and at completion every enabled
\* family of every region has been.
C3_FamilyRegionIsolation ==
    /\ pc \in {"regions", "facade"} =>
          \A r \in 1..ri, f \in 1..Len(FamilyOrder) :
              (Enabled(r, f) /\ (r < ri \/ f < fi \/ (f = fi /\ pc = "facade")))
                  => Invocation(r, f) \in Range(invoked)
    /\ (pc = "done" /\ ~TodayExcluded) =>
          \A r \in 1..Len(config.aws_regions), f \in 1..Len(FamilyOrder) :
              Enabled(r, f) => Invocation(r, f) \in Range(invoked)

\* a run over two regions with all nine families completed although
\* facades returned errors
C3_Witness ==
    /\ pc = "done"
    /\ nErr >= 1
    /\ Len(config.aws_regions) >= 2
    /\ Len(invoked) = Len(config.aws_regions) * Len(FamilyOrder)

(***************************************************************************)
(* C4.  Unconditional completion.                                          *)
(***************************************************************************)
\* C4: once the configuration is loaded, execute never returns an error:
\* whatever a facade returned, execute takes it and moves on to the next
\* family block or to its Ok(()).
C4_UnconditionalCompletion ==
    config.ok =>
        /\ pc # "failed"
        /\ (pc = "facade" /\ fpc = "ret") => ENABLED HandleResult

\* a run in which every facade invocation returned an error completed
C4_Witness ==
    /\ pc = "done"
    /\ nErr >= 2
    /\ nErr = Len(invoked)

(***************************************************************************)
(* C5.  Date exclusion gate.                                               *)
(***************************************************************************)
\* C5: if today's MM-DD is in excluded_dates the run ends with success having
\* made no API call and invoked no facade; and the date is read before any
\* region is processed.
C5_DateExclusion ==
    /\ TodayExcluded => (pc = "done" /\ NoApiCall)
    /\ pc \in {"regions", "facade"} => today # NoDate

\* an excluded run: today matched the second of two configured dates
C5_Witness ==
    /\ TodayExcluded
    /\ pc = "done"
    /\ Len(config.excluded_dates) >= 2
    /\ format_mm_dd(today) = config.excluded_dates[2]

(***************************************************************************)
(* C6.  Configuration fail-fast.                                           *)
(***************************************************************************)
\* a required variable is missing or invalid
RequiredInvalid(e) ==
    \/ e["SCHEDULE_ACTION"] = Unset
    \/ to_lowercase(e["SCHEDULE_ACTION"])
           \notin {<<"s", "t", "o", "p">>, <<"s", "t", "a", "r", "t">>}
    \/ e["AWS_REGIONS"] = Unset
    \/ Range(e["AWS_REGIONS"]) \subseteq {" ", ","}
    \/ e["TAG_KEY"] = Unset
    \/ e["TAG_VALUE"] = Unset

\* C6: with a required setting missing or invalid the process fails before
\* anything else happens: no date is read, no facade invoked, no API call.
C6_ConfigFailFast ==
    RequiredInvalid(env) =>
        /\ pc \in {"main", "failed"}
        /\ today = NoDate
        /\ NoApiCall

\* the process failed on a missing TAG_VALUE with everything else valid
C6_Witness ==
    /\ pc = "failed"
    /\ env["TAG_VALUE"] = Unset
    /\ env["TAG_KEY"] # Unset
    /\ env["SCHEDULE_ACTION"] = <<"s", "t", "o", "p">>
    /\ env["AWS_REGIONS"] = <<"a">>

(***************************************************************************)
(* C7.  A paginated listing returns the union of its pages.                *)
(***************************************************************************)
\* the collection the listing function that just returned handed back
ListingResult == IF ln = 1 THEN arns ELSE arns2

\* the items a page carries, by the listing it belongs to
PageItems(api, pg) ==
    CASE api = "get_resources" -> {a \in Range(pg) : a # NoArn}
      [] api = "list_groups" ->
            {g.name : g \in {h \in Range(pg) :
                Tag(config.tag_key, config.tag_value) \in Range(h.tags)}}
      [] api = "list_instances" -> UNION {Range(g.instances) : g \in Range(pg)}
      [] OTHER -> {}

\* C7: when a listing function (tag-based locator, group listing, member
\* expansion) returns, its result holds exactly the items of all the pages the
\* service sent, each once, however the result set was cut into pages.
C7_UnionOfPages ==
    fpc = "listed" =>
        /\ Distinct(ListingResult)
        /\ Range(ListingResult) =
              UNION {PageItems(lst.api, lst.served[i]) : i \in 1..Len(lst.served)}

\* a listing returned after two pages that each carried an item
C7_Witness ==
    /\ fpc = "listed"
    /\ Len(lst.served) >= 2
    /\ \A i \in 1..Len(lst.served) : PageItems(lst.api, lst.served[i]) # {}
    /\ Len(ListingResult) >= 2

(***************************************************************************)
(* C8.  Pagination stop rule.                                              *)
(***************************************************************************)
NonEmptyToken(t) == t # NoToken /\ Len(t) > 0

\* C8: the first request carries no token; a further request is issued exactly
\* when the previous response carried a non-empty token, and carries that
\* token; a response with no token or with the empty string ends the loop, and
\* the items of that last page are in the result.
C8_PaginationStopRule ==
    /\ Len(lst.reqTokens) >= 1 => lst.reqTokens[1] = NoToken
    /\ \A i \in 2..Len(lst.reqTokens) :
          /\ i - 1 <= Len(lst.respTokens)
          /\ NonEmptyToken(lst.respTokens[i - 1])
          /\ lst.reqTokens[i] = lst.respTokens[i - 1]
    /\ (fpc = "list" /\ Len(lst.respTokens) >= 1) =>
          NonEmptyToken(lst.respTokens[Len(lst.respTokens)])
    /\ (fpc = "listed" /\ lst.requests >= 1) =>
          /\ Len(lst.reqTokens) = Len(lst.respTokens)
          /\ ~NonEmptyToken(lst.respTokens[Len(lst.respTokens)])
          /\ PageItems(lst.api, lst.served[Len(lst.served)])
                 \subseteq Range(ListingResult)

\* a listing ended on a second page that carried an item and the token ""
C8_Witness ==
    /\ fpc = "listed"
    /\ Len(lst.respTokens) >= 2
    /\ lst.respTokens[Len(lst.respTokens)] = EmptyToken
    /\ PageItems(lst.api, lst.served[Len(lst.served)]) # {}

(***************************************************************************)
(* C9.  Compute Group stop: suspend before stop.                           *)
(***************************************************************************)
InAsg(action) ==
    /\ invoked # <<>>
    /\ LastFamily = "autoscaling"
    /\ config.schedule_action = action

\* C9: in one stop invocation of the Compute Group facade, when a
\* stop-instance call is issued the suspend-processes call of every
\* discovered group has already been issued.
C9_SuspendBeforeStop ==
    InAsg("Stop") =>
        \A j \in 1..Len(calls) :
            calls[j].op = "stop_instances" =>
                \A g \in Range(arns) :
                    \E k \in 1..(j - 1) :
                        /\ calls[k].op = "suspend_processes"
                        /\ calls[k].target = g

\* a stop invocation suspended two groups, one of the calls failing, and
\* stopped an instance
C9_Witness ==
    /\ InAsg("Stop")
    /\ fpc = "ret"
    /\ Len(arns) >= 2
    /\ \E j \in 1..Len(calls) : calls[j].op = "suspend_processes" /\ ~calls[j].ok
    /\ \E j \in 1..Len(calls) : calls[j].op = "stop_instances"

(***************************************************************************)
(* C10.  Compute Group start: start, wait, then resume.                    *)
(***************************************************************************)
\* C10: in one start invocation of the Compute Group facade, every
\* start-instance call precedes every resume-processes call, and no
\* resume-processes call is issued unless the wait has seen every started
\* instance running.
C10_ResumeAfterRunning ==
    InAsg("Start") =>
        \A j \in 1..Len(calls) :
            calls[j].op = "resume_processes" =>
                /\ \A k \in (j + 1)..Len(calls) : calls[k].op # "start_instances"
                /\ started = <<>> \/ waitRes = "ok"

(***************************************************************************)
(* C11.  Waiter success.                                                   *)
(***************************************************************************)
\* the waiter is running or has just returned
InWaiter == fpc \in {"wait", "waited"} /\ attempt >= 1

C12_WaiterTimeout ==
    /\ attempt <= MaxAttempts
    /\ fpc = "wait" => (attempt < MaxAttempts /\ waitRes = "none")
    /\ (fpc = "waited" /\ waitRes = "timeout") =>
          /\ attempt = MaxAttempts
          /\ observed.last # Range(started)
    /\ (fpc = "waited" /\ attempt = MaxAttempts /\ waitRes # "error"
          /\ observed.last # Range(started)) => waitRes = "timeout"

\* the waiter timed out after forty queries
C12_Witness ==
    /\ fpc = "waited"
    /\ waitRes = "timeout"
    /\ attempt = MaxAttempts
    /\ started # <<>>

(***************************************************************************)
(* C13.  Waiter query failure.                                             *)
(***************************************************************************)
\* C13: when a state query fails the waiter returns that error at once: it
\* does not suspend after the failed query, issues no further query, and the
\* failure is not taken for a tick on which the targets were not yet running
\* (it yields the error, never a further attempt or the timeout).
C13_WaiterQueryFailure ==
    /\ observed.failed =>
          /\ fpc = "waited"
          /\ waitRes = "error"
          /\ sleeps = attempt - 1
          /\ ~ENABLED WaitTick
    /\ waitRes = "error" => fpc # "wait"

\* the third query of a wait failed: three queries, two suspensions, an error
C13_Witness ==
    /\ observed.failed
    /\ waitRes = "error"
    /\ attempt = 3
    /\ sleeps = 2

(***************************************************************************)
(* C14.  A state-query failure aborts the Compute Group start.             *)
(***************************************************************************)
\* C14: in a start invocation of the Compute Group facade, once a state query
\* of the wait has failed the facade issues no further state-changing call:
\* the calls it has made are the start-instance calls that preceded the wait,
\* and no resume-processes call is among them.
C14_QueryFailureAborts ==
    (InAsg("Start") /\ waitRes = "error") =>
        \A j \in 1..Len(calls) : calls[j].op = "start_instances"

(***************************************************************************)
(* C15.  A tag-lookup failure aborts one family operation only.            *)
(***************************************************************************)
\* a request of the listing did not get a response
FailedListing == Len(lst.reqTokens) > Len(lst.respTokens)

\* C15: when a request of the tag-based locator or of a group listing fails,
\* that facade invocation returns an error having issued no state-changing
\* call (and no membership lookup or state query); execute takes the error
\* and goes on, so that a run in which facades failed still ends having
\* invoked every enabled family of every region.
C15_LookupFailureAborts ==
    /\ FailedListing =>
          /\ fpc = "ret"
          /\ result = "err"
          /\ calls = <<>>
          /\ skipped = {}
          /\ started = <<>>
          /\ attempt = 0
          /\ pc # "failed"
          /\ pc = "facade" => ENABLED HandleResult
    /\ (pc = "done" /\ nErr >= 1) =>
          \A r \in 1..Len(config.aws_regions), f \in 1..Len(FamilyOrder) :
              Enabled(r, f) => Invocation(r, f) \in Range(invoked)

\* the relational-database facade found a cluster, its instance listing
\* failed, and the run completed
C15_Witness ==
    /\ FailedListing
    /\ invoked # <<>>
    /\ LastFamily = "rds"
    /\ ln = 2
    /\ arns # <<>>
    /\ nErr >= 1
    /\ pc = "done"

(***************************************************************************)
(* C16.  Member expansion of no groups.                                    *)
(***************************************************************************)
\* C16: when the list of group names is empty, list_instances returns the
\* empty list having issued no request.
C16_ExpandMembersShortCircuit ==
    (lst.api = "list_instances" /\ arns = <<>>) =>
        /\ fpc = "listed"
        /\ lst.requests = 0
        /\ lst.reqTokens = <<>>
        /\ arns2 = <<>>

\* the group listing matched no group and the member expansion has returned
C16_Witness ==
    /\ lst.api = "list_instances"
    /\ arns = <<>>
    /\ fpc = "listed"
    /\ ln = 2

(***************************************************************************)
(* C17.  Owned-instance exclusion.                                         *)
(***************************************************************************)
InEc2 == invoked # <<>> /\ LastFamily = "ec2"

\* C17: in the Compute Instance facade, stop or start, an instance whose
\* membership lookup reported an owning group gets no stop and no start call;
\* process_instance returns Ok(()) for it, and the facade returns success.
C17_OwnedInstanceExclusion ==
    InEc2 =>
        /\ \A s \in skipped :
              s.why = "owned" =>
                  /\ s.ok
                  /\ \A j \in 1..Len(calls) : calls[j].target # s.id
        /\ (fpc = "ret" /\ lst.api = "none") => result = "ok"

\* a start run of the facade skipped an owned instance and started another
C17_Witness ==
    /\ InEc2
    /\ config.schedule_action = "Start"
    /\ fpc = "ret"
    /\ \E s \in skipped : s.why = "owned"
    /\ \E j \in 1..Len(calls) : calls[j].op = "start_instances"

(***************************************************************************)
(* C18.  Sequential, ordered processing.                                   *)
(***************************************************************************)
ClaimedOrder ==
    <<"ec2", "autoscaling", "apprunner", "cloudwatch", "documentdb", "ecs", "rds",
      "redshift", "transfer">>

\* every <<region, family>> in the claimed order: regions as configured, and
\* within a region the families in ClaimedOrder
Plan ==
    [k \in 1..(Len(config.aws_regions) * Len(ClaimedOrder)) |->
        <<config.aws_regions[((k - 1) \div Len(ClaimedOrder)) + 1],
          ClaimedOrder[((k - 1) % Len(ClaimedOrder)) + 1]>>]

EnabledPlan == SelectSeq(Plan, LAMBDA p : config.schedule[p[2]])

\* C18: the facade invocations made so far are an initial part of the plan
\* (regions in configured order, within each the enabled families in the
\* claimed order), and the whole of it when the run completes; execute moves
\* between family blocks only when no facade operation is in progress, so
\* that one operation has returned before the next is invoked.
C18_SequentialOrder ==
    config.ok =>
        /\ Len(invoked) <= Len(EnabledPlan)
        /\ \A i \in 1..Len(invoked) : invoked[i] = EnabledPlan[i]
        /\ (pc = "done" /\ ~TodayExcluded) => invoked = EnabledPlan
        /\ pc \in {"regions", "done"} => fpc \in {"idle", "ret"}
        /\ pc = "facade" => fpc # "idle"

\* a run over two regions with every family enabled has completed
C18_Witness ==
    /\ pc = "done"
    /\ Len(config.aws_regions) = 2
    /\ Len(invoked) = 2 * Len(ClaimedOrder)

(***************************************************************************)
(* C19.  ARN segment extraction.                                           *)
(***************************************************************************)
Applied(fn) == extracted.fn = fn

\* x is a string made of characters of the input
IsString(x) == DOMAIN x = 1..Len(x) /\ \A i \in 1..Len(x) : x[i] \in Range(input)

Free(x, sep) == \A i \in 1..Len(x) : x[i] # sep

\* s ends with the characters of t
EndsWith(s, t) ==
    Len(t) <= Len(s) /\ SubSeq(s, Len(s) - Len(t) + 1, Len(s)) = t

NumSeps(s, sep) == Cardinality({i \in 1..Len(s) : s[i] = sep})

\* out is what follows the last separator of the input, the whole input when
\* it has none
LastSegment(out, sep) ==
    /\ IsString(out)
    /\ Free(out, sep)
    /\ IF Free(input, sep) THEN out = input ELSE EndsWith(input, <<sep>> \o out)

\* a service ARN has three non-empty '/'-separated segments
\* (arn:...:service / cluster-or-name / service-or-id)
WellFormedServiceArn(s) ==
    /\ NumSeps(s, "/") = 2
    /\ s[1] # "/"
    /\ s[Len(s)] # "/"
    /\ \A i \in 1..(Len(s) - 1) : ~(s[i] = "/" /\ s[i + 1] = "/")

\* C19 as stated: every extractor returns a value; the ECS extractor returns
\* the last two segments of a well-formed service ARN, and for any other
\* string it (like the App Runner extractor) returns the whole input.
C19_FallbackOnMalformed ==
    /\ Applied("extract_ecs_names") =>
          IF WellFormedServiceArn(input)
          THEN EndsWith(input, <<"/">> \o extracted.out[1] \o <<"/">>
                                  \o extracted.out[2])
          ELSE extracted.out[2] = input
    /\ Applied("extract_service_name") =>
          (~WellFormedServiceArn(input) => extracted.out = input)

\* C19 amended: every extractor returns a value for every string.  The ECS
\* extractor returns, for a string with at least two '/', its last two
\* '/'-separated segments as (cluster, service), well-formed ARN or not, and
\* otherwise the empty cluster with the whole input as service.  The App
\* Runner extractor returns the last segment but one, and the whole input
\* when there is no '/'.  The others return what follows the last separator,
\* which is the whole input when there is none.
C19_ExtractionTotal ==
    /\ Applied("extract_ecs_names") =>
          /\ Len(extracted.out) = 2
          /\ IsString(extracted.out[1])
          /\ IsString(extracted.out[2])
          /\ IF NumSeps(input, "/") >= 2
             THEN /\ Free(extracted.out[1], "/")
                  /\ Free(extracted.out[2], "/")
                  /\ EndsWith(input, <<"/">> \o extracted.out[1] \o <<"/">>
                                         \o extracted.out[2])
             ELSE extracted.out = <<<<>>, input>>
    /\ Applied("extract_service_name") =>
          /\ IsString(extracted.out)
          /\ IF NumSeps(input, "/") >= 1
             THEN /\ Free(extracted.out, "/")
                  /\ \E n \in 0..Len(input) :
                        /\ Free(SubSeq(input, Len(input) - n + 1, Len(input)), "/")
                        /\ EndsWith(SubSeq(input, 1, Len(input) - n),
                                    extracted.out \o <<"/">>)
                        /\ \/ Len(input) - n - 1 = Len(extracted.out)
                           \/ EndsWith(SubSeq(input, 1, Len(input) - n),
                                       <<"/">> \o extracted.out \o <<"/">>)
             ELSE extracted.out = input
    /\ (Applied("extract_instance_id") \/ Applied("extract_server_id")) =>
          LastSegment(extracted.out, "/")
    /\ (Applied("extract_rds_id") \/ Applied("extract_docdb_cluster_id")
          \/ Applied("extract_redshift_cluster_id")
          \/ Applied("extract_alarm_name")) =>
          LastSegment(extracted.out, ":")

\* the ECS extractor applied to a service ARN returned its cluster and service
C19_Witness ==
    /\ Applied("extract_ecs_names")
    /\ input = Arn("ecs:service", 1)
    /\ extracted.out = <<<<"c", "l">>, <<"s", "1">>>>

(***************************************************************************)
(* C20.  Poll-target monotonicity.                                         *)
(***************************************************************************)
\* the targets no state query of this wait has reported running yet
Pending == Range(started) \ observed.seen

\* C20: a target reported running by some query of the wait is not required
\* again: once every target has been reported running by some query, the
\* waiter has returned success, whatever the targets did afterwards.
C20_PendingOnlyShrinks ==
    (InWaiter /\ ~observed.failed /\ Pending = {}) => waitRes = "ok"

(***************************************************************************)
(* C21.  The waiter suspends only between state queries.                   *)
(***************************************************************************)
\* C21: a wait that ends, by success or by timeout, after k state queries has
\* suspended exactly k - 1 times: once between consecutive queries, and not
\* after the last one.
C21_SuspendsBetweenTicks ==
    (fpc = "waited" /\ waitRes \in {"ok", "timeout"}) => sleeps = attempt - 1

(***************************************************************************)
(* C22.  One call for every instance of no group.                          *)
(***************************************************************************)
NumCalls(t) == Cardinality({j \in 1..Len(calls) : calls[j].target = t})

\* the instance is known or reported to belong to a scaling group
IsOwned(id) == \E s \in skipped : s.id = id /\ s.owned

DirectOp == IF config.schedule_action = "Stop" THEN "stop_instances"
            ELSE "start_instances"

\* C22 as stated: when the Compute Instance facade has returned, every
\* discovered instance that does not belong to a scaling group has received
\* exactly one stop or start call.
C22_OneCallPerUnownedInstance ==
    (InEc2 /\ ReturnedAfterDiscovery) =>
        \A i \in 1..Len(arns) :
            LET id == extract_instance_id(arns[i])
            IN ~IsOwned(id) => NumCalls(id) = 1

\* C22 amended: every discovered instance whose membership lookup succeeded
\* and reported no owning group has received exactly one call, of the verb of
\* the action, whatever failed for other instances or in that call; no
\* instance ever receives more than one; an instance whose lookup failed
\* receives none.
C22_OneCallPerEligibleInstance ==
    InEc2 =>
        /\ \A j \in 1..Len(calls) :
              /\ calls[j].op = DirectOp
              /\ NumCalls(calls[j].target) = 1
        /\ ReturnedAfterDiscovery =>
              \A i \in 1..Len(arns) :
                  LET id == extract_instance_id(arns[i])
                  IN NumCalls(id) = IF id \in SkippedIds THEN 0 ELSE 1

\* the facade returned: the call for the first instance failed, the second
\* instance received its call as well
C22_Witness ==
    /\ InEc2
    /\ ReturnedAfterDiscovery
    /\ Len(arns) = 2
    /\ Len(calls) = 2
    /\ ~calls[1].ok

(***************************************************************************)
(* C23.  Suspend before stop.                                              *)
(***************************************************************************)
\* a suspend-processes call for the group owning the target of calls[j] has
\* succeeded before calls[j]
OwnerSuspended(j) ==
    \E k \in 1..(j - 1) :
        /\ calls[k].op = "suspend_processes"
        /\ calls[k].ok
        /\ calls[j].target \in Range(lst.members[calls[k].target])

\* C23: in Compute Group stop, every stop-instance call issued for a member
\* instance comes after a successful suspend-processes call for the group
\* that owns the instance.
C23_StopOnlyAfterSuspendSucceeded ==
    InAsg("Stop") =>
        \A j \in 1..Len(calls) :
            calls[j].op = "stop_instances" => OwnerSuspended(j)

(***************************************************************************)
(* C24.  Exact tag match in group discovery.                               *)
(***************************************************************************)
Occurrences(seq, x) == Cardinality({i \in 1..Len(seq) : seq[i] = x})

\* the groups of the pages DescribeAutoScalingGroups answered with
ServedGroups == Range(Concat(lst.served))

HasExactTag(g) ==
    \E t \in Range(g.tags) : t.key = config.tag_key /\ t.value = config.tag_value

\* C24: when list_groups returns, a group the service listed is in the result
\* exactly once if one of its tags has the configured key and the configured
\* value, compared character for character, and is absent from it otherwise;
\* nothing else is in the result.
C24_ExactTagMatch ==
    (fpc = "listed" /\ lst.api = "list_groups") =>
        /\ \A g \in ServedGroups :
              Occurrences(arns, g.name) = IF HasExactTag(g) THEN 1 ELSE 0
        /\ Range(arns) \subseteq {g.name : g \in ServedGroups}

\* list_groups returned after two pages: one group carried the tag twice and
\* is returned once, the other carried only tags that differ by case or use
\* "*" and is not returned
C24_Witness ==
    /\ fpc = "listed"
    /\ lst.api = "list_groups"
    /\ Len(lst.served) = 2
    /\ Len(arns) = 1
    /\ \E g \in ServedGroups :
          /\ HasExactTag(g)
          /\ Occurrences(g.tags, Tag(config.tag_key, config.tag_value)) = 2
    /\ \E g \in ServedGroups :
          /\ ~HasExactTag(g)
          /\ Tag(config.tag_key, <<"*">>) \in Range(g.tags)
          /\ Tag(<<"K">>, config.tag_value) \in Range(g.tags)

(***************************************************************************)
(* C25.  ECS verb mapping.                                                 *)
(***************************************************************************)
InEcs == invoked # <<>> /\ LastFamily = "ecs"

\* the desired count of the service after the request calls[j]
CountAfter(j) == IF calls[j].ok THEN calls[j].desired_count ELSE calls[j].before

\* C25: every request of the ECS facade is an update_service whose desired
\* count is 0 in a Stop run and 1 in a Start run; when the facade has returned,
\* every discovered service has been sent that request, for its cluster and
\* its service name; a service whose start request succeeded has desired
\* count 1, whatever count it had before.
C25_EcsVerbMapping ==
    InEcs =>
        /\ \A j \in 1..Len(calls) :
              /\ calls[j].op = "update_service"
              /\ calls[j].desired_count =
                    IF config.schedule_action = "Stop" THEN 0 ELSE 1
              /\ (config.schedule_action = "Start" /\ calls[j].ok) =>
                    CountAfter(j) = 1
              /\ calls[j].cluster = extract_ecs_names(arns[j])[1]
              /\ calls[j].target = extract_ecs_names(arns[j])[2]
        /\ ReturnedAfterDiscovery => Len(calls) = Len(arns)

\* a start of two services returned: both requests succeeded, one service was
\* at count 0 and the other still at count 3
C25_Witness ==
    /\ InEcs
    /\ config.schedule_action = "Start"
    /\ ReturnedAfterDiscovery
    /\ Len(calls) = 2
    /\ calls[1].ok /\ calls[2].ok
    /\ {calls[1].before, calls[2].before} = {0, 3}

(***************************************************************************)
(* C26.  Configuration validity.                                           *)
(***************************************************************************)
Loaded == pc \notin {"main", "extract"}

\* the characters of a setting that are neither blanks nor separators
Significant(s) == SelectSeq(s, LAMBDA c : c \notin {" ", ","})

\* C26: from_env succeeds exactly when SCHEDULE_ACTION is stop or start in any
\* letter case, AWS_REGIONS has an entry that is not blank, and TAG_KEY and
\* TAG_VALUE are set, and fails otherwise; a loaded configuration has the
\* action asked for and a non-empty region list whose entries are the trimmed,
\* non-empty entries of AWS_REGIONS in the order they were written.
C26_ConfigValidity ==
    Loaded =>
        /\ config.ok <=> ~RequiredInvalid(env)
        /\ pc = "failed" <=> ~config.ok
        /\ config.ok =>
              /\ config.schedule_action =
                    (IF to_lowercase(env["SCHEDULE_ACTION"]) = <<"s", "t", "o", "p">>
                     THEN "Stop" ELSE "Start")
              /\ config.aws_regions # <<>>
              /\ \A i \in 1..Len(config.aws_regions) :
                    /\ config.aws_regions[i] # <<>>
                    /\ Range(config.aws_regions[i]) \cap {" ", ","} = {}
              /\ Concat(config.aws_regions) = Significant(env["AWS_REGIONS"])
              /\ config.tag_key = env["TAG_KEY"]
              /\ config.tag_value = env["TAG_VALUE"]

\* a configuration loaded from SCHEDULE_ACTION=Start and AWS_REGIONS=" b ,a,":
\* the action is Start and the regions are b, then a
C26_Witness ==
    /\ Loaded
    /\ config.ok
    /\ env["SCHEDULE_ACTION"] = <<"S", "t", "a", "r", "t">>
    /\ config.schedule_action = "Start"
    /\ env["AWS_REGIONS"] = <<" ", "b", " ", ",", "a", ",">>
    /\ config.aws_regions = <<<<"b">>, <<"a">>>>

(***************************************************************************)
(* C27.  The wait set of Compute Group start.                              *)
(***************************************************************************)
\* the instances whose start call succeeded, in call order
RECURSIVE StartedOk(_)
StartedOk(cs) ==
    IF cs = <<>> THEN <<>>
    ELSE (IF Head(cs).op = "start_instances" /\ Head(cs).ok
          THEN <<Head(cs).target>> ELSE <<>>) \o StartedOk(Tail(cs))

\* the waiter has been entered in this invocation
WaiterInvoked == fpc \in {"wait", "waited"} \/ attempt >= 1 \/ waitRes # "none"

\* C27: in Compute Group start the instances handed to the waiter are exactly
\* those whose start call succeeded, in call order; the waiter is entered only
\* after the start loop is over and only when a start call succeeded, so with
\* no successful start there is no state query.
C27_WaitSet ==
    InAsg("Start") =>
        /\ started = StartedOk(calls)
        /\ observed.seen \subseteq Range(StartedOk(calls))
        /\ WaiterInvoked =>
              /\ StartedOk(calls) # <<>>
              /\ \A i \in 1..Len(arns2) :
                    \E j \in 1..Len(calls) :
                        calls[j].op = "start_instances" /\ calls[j].target = arns2[i]
        /\ (fpc = "ret" /\ StartedOk(calls) = <<>>) =>
              attempt = 0 /\ waitRes = "none"

\* the waiter ran for one instance: the start call of the other had failed
C27_Witness ==
    /\ InAsg("Start")
    /\ fpc = "waited"
    /\ Len(arns2) = 2
    /\ Len(started) = 1
    /\ \E j \in 1..Len(calls) : calls[j].op = "start_instances" /\ ~calls[j].ok
    /\ attempt >= 1

(***************************************************************************)
(* C28.  Action direction.                                                 *)
(***************************************************************************)
StopOps ==
    {"stop_instances", "suspend_processes", "pause_service",
     "disable_alarm_actions", "stop_db_cluster", "stop_db_instance",
     "pause_cluster", "stop_server"}

StartOps ==
    {"start_instances", "resume_processes", "resume_service",
     "enable_alarm_actions", "start_db_cluster", "start_db_instance",
     "resume_cluster", "start_server"}

StopType(c) == c.op \in StopOps \/ (c.op = "update_service" /\ c.desired_count = 0)
StartType(c) == c.op \in StartOps \/ (c.op = "update_service" /\ c.desired_count = 1)

\* C28: in a run configured with Stop every state-changing call, in every
\* region and family, is a stop, suspend, pause, disable or desired-count-0
\* call and none is of the start kind; in a run configured with Start every
\* call is a start, resume, enable or desired-count-1 call and none is of the
\* stop kind.
C28_ActionDirection ==
    \A j \in 1..Len(calls) :
        /\ to_lowercase(env["SCHEDULE_ACTION"]) = <<"s", "t", "o", "p">> =>
              StopType(calls[j]) /\ ~StartType(calls[j])
        /\ to_lowercase(env["SCHEDULE_ACTION"]) = <<"s", "t", "a", "r", "t">> =>
              StartType(calls[j]) /\ ~StopType(calls[j])

\* a Start run in its second region: the Compute Group facade has started an
\* instance and resumed its group
C28_Witness ==
    /\ InAsg("Start")
    /\ ri = 2
    /\ \E j \in 1..Len(calls) : calls[j].op = "start_instances"
    /\ \E j \in 1..Len(calls) : calls[j].op = "resume_processes"

(***************************************************************************)
(* C29.  Disabled families are untouched.                                  *)
(***************************************************************************)
\* the service clients a family's facade sends state-changing calls with
ClientsOf(f) ==
    CASE f = "autoscaling" -> {"asg", "ec2"}
      [] f = "documentdb" -> {"docdb"}
      [] OTHER -> {f}

\* the listings a family's facade makes
ListingsOf(f) ==
    CASE f = "ec2" -> {"ec2:instance"}
      [] f = "autoscaling" -> {"groups", "instances"}
      [] f = "apprunner" -> {"apprunner:service"}
      [] f = "cloudwatch" -> {"cloudwatch:alarm"}
      [] f = "documentdb" -> {"rds:cluster"}
      [] f = "ecs" -> {"ecs:service"}
      [] f = "rds" -> {"rds:cluster", "rds:db"}
      [] f = "redshift" -> {"redshift:cluster"}
      [] f = "transfer" -> {"transfer:server"}

\* C29: every facade invoked in the run, in any region, is of a family whose
\* flag is true, and every listing request and state-changing call is made by
\* the facade invoked last, with that family's resource types and clients: a
\* family whose flag is false makes no discovery and no state-changing call.
C29_DisabledFamiliesUntouched ==
    config.ok =>
        /\ \A i \in 1..Len(invoked) : config.schedule[invoked[i][2]]
        /\ invoked = <<>> =>
              /\ calls = <<>>
              /\ lst.requests = 0
              /\ skipped = {}
              /\ attempt = 0
        /\ invoked # <<>> =>
              /\ \A j \in 1..Len(calls) : calls[j].client \in ClientsOf(LastFamily)
              /\ lst.api # "none" => lst.type \in ListingsOf(LastFamily)

\* a run over two regions completed with the Compute Instance flag set to "0":
\* only the Compute Group facade was invoked, once in each region
C29_Witness ==
    /\ pc = "done"
    /\ config.ok
    /\ env["EC2_SCHEDULE"] = <<"0">>
    /\ ~config.schedule["ec2"]
    /\ Len(invoked) = 2
    /\ \A i \in 1..Len(invoked) : invoked[i][2] = "autoscaling"

(***************************************************************************)
(* C30.  At most one action per resource.                                  *)
(***************************************************************************)
\* no two requests of the facade invocation act on the same resource
NoRepeatInFacade ==
    \A i, j \in 1..Len(calls) :
        i # j => ResourceOf(calls[i]) # ResourceOf(calls[j])

\* C30: within one run and one region no resource is sent more than one
\* state-changing call: no two requests of one facade invocation act on the
\* same resource, and no instance or DB cluster called by one facade is
\* called again by another, whichever families are enabled.
C30_AtMostOneCallPerResource ==
    /\ NoRepeatInFacade
    /\ acted.again = {}

(***************************************************************************)
(* C31.  Discovery precedes action.                                        *)
(***************************************************************************)
\* the facade invocation has sent a request other than a listing request
HasActed == calls # <<>> \/ skipped # {} \/ attempt >= 1

\* C31: in a facade invocation no listing is running or pending once a
\* state-changing call (or a membership lookup, or a state query) has been
\* made: every listing of the facade has returned by then; a facade returns an
\* error only with a failed listing request and no state-changing call, and
\* returns success whenever none of its listing requests failed.
C31_DiscoveryPrecedesAction ==
    invoked # <<>> =>
        /\ HasActed =>
              /\ lst.api = "none"
              /\ lst.requests = 0
              /\ ln = NumListings(LastFamily)
              /\ fpc \notin {"list", "listed"}
        /\ result = "err" => (FailedListing /\ ~HasActed)
        /\ (fpc = "ret" /\ ~FailedListing) => result = "ok"

\* the relational-database facade returned success: both its listings were
\* answered before its first call, a cluster call failed and an instance call
\* followed
C31_Witness ==
    /\ invoked # <<>>
    /\ LastFamily = "rds"
    /\ fpc = "ret"
    /\ result = "ok"
    /\ arns # <<>>
    /\ arns2 # <<>>
    /\ Len(calls) = Len(arns) + Len(arns2)
    /\ ~calls[1].ok

(***************************************************************************)
(* C32.  Termination.                                                      *)
(***************************************************************************)
\* main has returned: execute returned Ok(()), or from_env returned Err and
\* execute was never called
Completed == pc = "done" \/ (pc = "failed" /\ ~config.ok)

\* C32: when every call returns and every listing ends after finitely many
\* pages, every run reaches completion, for every configuration, every pattern
\* of failed calls and every sequence of instance states; a run whose
\* configuration loaded reaches the return of execute.
C32_Termination ==
    /\ <>Completed
    /\ (pc = "execute") ~> (pc = "done")

\* a run completed although its last facade, Compute Group start, had a start
\* call fail and its waiter time out after all its attempts
C32_Witness ==
    /\ pc = "done"
    /\ invoked # <<>>
    /\ LastFamily = "autoscaling"
    /\ waitRes = "timeout"
    /\ \E j \in 1..Len(calls) : ~calls[j].ok

====
